---------------------------- MODULE Spec2Model ----------------------------
(***************************************************************************)
(* Model of docs/build-index.py: the script that parses the swagger-ui     *)
(* index.html, retitles it, rewrites the relative href/src of its link and *)
(* script elements, replaces the inline initializer script by a fixed      *)
(* template and writes the prettified document, and of the JavaScript the  *)
(* template runs at page load (parseQuery and the urls list).              *)
(*                                                                         *)
(* Text is a sequence of tokens.  A token is one character ("." "/" "="    *)
(* "&" "(" " " ...) or one word that the code treats as a unit and that is *)
(* written here as a single string ("window.onload", "SwaggerUIBundle",    *)
(* "node_modules", "encircleUrl", "%3D").  Split, Join, Strip and the      *)
(* regular-expression searches work on these sequences position by         *)
(* position, as the string operations of the code do on characters.        *)
(***************************************************************************)
EXTENDS Naturals, Sequences, FiniteSets

VARIABLES pc, inFile, soup, todo, init_scripts, outFile, err,
          ppc, protocol, search, query, urls

runVars  == <<pc, inFile, soup, todo, init_scripts, outFile, err>>
pageVars == <<ppc, protocol, search, query, urls>>
vars     == <<pc, inFile, soup, todo, init_scripts, outFile, err,
              ppc, protocol, search, query, urls>>

-----------------------------------------------------------------------------
(* Bounds of the model. *)
MaxTitles == 2
MaxElems == 2
MaxPath == 5
MaxQuery == 5

-----------------------------------------------------------------------------
(* Text helpers. *)

SP == " "
NL == "\n"
WS == {SP, NL}

\* All token sequences over alphabet A of length 0..n.
Strs(A, n) == UNION {[1..k -> A] : k \in 0..n}

\* An optional value (Python None / an absent attribute) is <<>>, a present
\* value v is <<v>>.
None == <<>>
Some(v) == <<v>>

\* str.split(sep) of Python and String.prototype.split(sep) of JavaScript for
\* a one-token separator: the segments between the separators, empty ones
\* kept; a text without separator is its own single segment.
RECURSIVE Split(_, _)
Split(s, sep) ==
    IF \A i \in 1..Len(s) : s[i] # sep
    THEN <<s>>
    ELSE LET i == CHOOSE k \in 1..Len(s) :
                        s[k] = sep /\ \A j \in 1..(k-1) : s[j] # sep
         IN  <<SubSeq(s, 1, i-1)>> \o Split(SubSeq(s, i+1, Len(s)), sep)

\* sep.join(parts)
RECURSIVE Join(_, _)
Join(parts, sep) ==
    IF parts = <<>> THEN <<>>
    ELSE IF Len(parts) = 1 THEN parts[1]
    ELSE parts[1] \o <<sep>> \o Join(Tail(parts), sep)

\* str.strip(): leading and trailing whitespace removed.
RECURSIVE LStrip(_)
LStrip(s) == IF s # <<>> /\ s[1] \in WS THEN LStrip(Tail(s)) ELSE s

RECURSIVE RStrip(_)
RStrip(s) ==
    IF s # <<>> /\ s[Len(s)] \in WS THEN RStrip(SubSeq(s, 1, Len(s)-1)) ELSE s

Strip(s) == RStrip(LStrip(s))


-----------------------------------------------------------------------------
(* The document.                                                           *)
(*                                                                         *)
(* A parsed document is its title elements and its link and script         *)
(* elements, each list in document order.  A title is in head or elsewhere *)
(* (html5lib leaves a title met after the head where it stands; an svg     *)
(* title is one too).  An element carries its href and src attributes      *)
(* (None when absent) and its text.                                        *)

Title(inHead, text) == [inHead |-> inHead, text |-> text]
Elem(name, href, src, text) ==
    [name |-> name, href |-> href, src |-> src, text |-> text]
Doc(titles, elems) == [titles |-> titles, elems |-> elems]

EmptyDoc == Doc(<<>>, <<>>)

\* The first title below head, as soup.head.title finds it: its index in
\* titles, 0 for Python's None.
HeadTitle(d) ==
    IF \A i \in 1..Len(d.titles) : ~d.titles[i].inHead
    THEN 0
    ELSE CHOOSE i \in 1..Len(d.titles) :
            d.titles[i].inHead /\ \A j \in 1..(i-1) : ~d.titles[j].inHead

TitleStr == <<"Encircle Public API">>

\* re.compile(r'^\./').search(value): the value begins with "./".
MatchesRelUnanchored(value) ==
    \E i \in 1..(Len(value)-1) : value[i] = "." /\ value[i+1] = "/"

MatchesRelDotOnly(value) == Len(value) >= 1 /\ value[1] = "."

MatchesRel(value) == Len(value) >= 2 /\ value[1] = "." /\ value[2] = "/"

\* The elements soup.find_all(name, <attr>=re.compile(r'^\./')) returns, as
\* their indices in document order: the elements of that name whose
\* attribute is present and matches.
RECURSIVE FindAllRel(_, _, _, _)
FindAllRel(d, name, attr, from) ==
    IF from > Len(d.elems) THEN <<>>
    ELSE LET e == d.elems[from]
             v == IF attr = "href" THEN e.href ELSE e.src
             hit == e.name = name /\ v # None /\ MatchesRel(v[1])
         IN  (IF hit THEN <<from>> ELSE <<>>)
                \o FindAllRel(d, name, attr, from + 1)

\* rewrite_link: the segments after the first, behind ./node_modules/swagger-ui-dist
link_parts(link_str) == Split(link_str, "/")

rewrite_link_assert(link_str) == link_parts(link_str)[1] = <<".">>

rewrite_link_keep_first(link_str) ==
    Join(<< <<".">>, <<"node_modules">>, <<"swagger-ui-dist">> >>
            \o link_parts(link_str), "/")

rewrite_link(link_str) ==
    Join(<< <<".">>, <<"node_modules">>, <<"swagger-ui-dist">> >>
            \o Tail(link_parts(link_str)), "/")

\* re.search(<word>\s*<mark>, text): somewhere in the text the word, then any
\* run of whitespace, then the mark.
SearchWordWsMark(text, word, mark) ==
    \E i \in 1..Len(text) : \E j \in (i+1)..Len(text) :
        /\ text[i] = word
        /\ text[j] = mark
        /\ \A k \in (i+1)..(j-1) : text[k] \in WS

\* is_initializer_script(tag)
is_initializer_script(tag) ==
    IF tag.name # "script" THEN FALSE
    ELSE IF tag.src # None THEN FALSE
    ELSE IF ~SearchWordWsMark(tag.text, "window.onload", "=") THEN FALSE
    ELSE IF ~SearchWordWsMark(tag.text, "SwaggerUIBundle", "(") THEN FALSE
    ELSE TRUE

\* list(soup.find_all(is_initializer_script)), as indices in document order.
RECURSIVE FindInitializers(_, _)
FindInitializers(d, from) ==
    IF from > Len(d.elems) THEN <<>>
    ELSE (IF is_initializer_script(d.elems[from]) THEN <<from>> ELSE <<>>)
            \o FindInitializers(d, from + 1)

\* The replacement script of lines 102-152: it begins with a line break,
\* assigns window.onload, calls SwaggerUIBundle( and names the production
\* endpoint; "code" stands for the rest of its text.
TemplateNoOnload ==
    <<NL, "window.addEventListener", "(", "code", "SwaggerUIBundle", "(",
      "code", "api.encircleapp.com", "code", NL>>

Template ==
    <<NL, "window.onload", SP, "=", SP, "code", "SwaggerUIBundle", "(",
      "code", "api.encircleapp.com", "code", NL>>

\* soup.prettify(): every element on lines of its own.  A text is stripped
\* and put on its own indented line between the tags; attribute values are
\* written as they are.  One SP stands for the indentation, whatever its
\* depth.
PrettyText(text) ==
    IF Strip(text) = <<>> THEN <<NL, SP>>
    ELSE <<NL, SP>> \o Strip(text) \o <<NL, SP>>

prettify(d) ==
    Doc([i \in 1..Len(d.titles) |->
            [d.titles[i] EXCEPT !.text = PrettyText(@)]],
        [i \in 1..Len(d.elems) |->
            IF d.elems[i].name = "script"
            THEN [d.elems[i] EXCEPT !.text = PrettyText(@)]
            ELSE d.elems[i]])

\* The output file: absent, opened for writing (created or truncated), written.
NoFile == [st |-> "absent", doc |-> EmptyDoc]
OpenedFile == [st |-> "empty", doc |-> EmptyDoc]
WrittenFile(d) == [st |-> "written", doc |-> d]

-----------------------------------------------------------------------------
(* The input documents the run is checked on. *)

PathChar == {".", "/", "a"}

InitText ==
    <<SP, "window.onload", NL, "=", "code", "SwaggerUIBundle", "(", "code", SP>>

TitleEls ==
    { Title(TRUE, <<"X">>), Title(TRUE, <<SP, "Y", NL>>), Title(FALSE, <<"X">>) }

LinkEls ==
    { Elem("link", None, None, <<>>),
      Elem("link", Some(<<".", "/", "a">>), None, <<>>) }

ScriptEls ==
    { Elem("script", None, None, InitText),
      Elem("script", None, None, <<"window.onload", "=", "code">>),
      Elem("script", None, None, <<"code", "SwaggerUIBundle", SP, "(">>),
      Elem("script", None, None,
           <<"window.onload", "code", "=", "SwaggerUIBundle", "(">>),
      Elem("script", None, Some(<<".", "/", "a">>), InitText),
      Elem("script", None, Some(<<".", "/", "a">>), <<>>),
      Elem("script", Some(<<".", "/", "a">>), None, <<>>) }

\* Up to MaxTitles titles and MaxElems elements, in any order.
MixedDocs ==
    { Doc(t, e) : t \in Strs(TitleEls, MaxTitles),
                  e \in Strs(LinkEls \cup ScriptEls, MaxElems) }

\* One titled document per path of up to MaxPath characters, carried by a
\* link's href or by a script's src, beside the initializer script.
PathDocs ==
    { Doc(<<Title(TRUE, <<"X">>)>>,
          << (IF n = "link" THEN Elem(n, Some(p), None, <<>>)
                            ELSE Elem(n, None, Some(p), <<>>)),
             Elem("script", None, None, InitText) >>) :
        n \in {"link", "script"}, p \in Strs(PathChar, MaxPath) }

Documents == MixedDocs \cup PathDocs

-----------------------------------------------------------------------------
(* The run of build-index.py. *)

PageIdle ==
    /\ ppc = "idle"
    /\ protocol = "https:"
    /\ search = <<>>
    /\ query = <<>>
    /\ urls = <<>>

Init ==
    /\ pc = "load"
    /\ inFile \in Documents
    /\ soup = EmptyDoc
    /\ todo = <<>>
    /\ init_scripts = <<>>
    /\ outFile = NoFile
    /\ err = "none"
    /\ PageIdle

\* An uncaught exception ends the process.
Abort(e) == pc' = "aborted" /\ err' = e

\* with (...).open() as fp: soup = BeautifulSoup(fp, 'html5lib')
\* The file opens and parses, or open() raises.
Load ==
    /\ pc = "load"
    /\ \/ /\ soup' = inFile
          /\ pc' = "title"
          /\ err' = err
       \/ /\ Abort("OSError")
          /\ soup' = soup
    /\ UNCHANGED <<inFile, todo, init_scripts, outFile>>
    /\ UNCHANGED pageVars

\* soup.head.title.string = 'Encircle Public API'
SetTitleAppend ==
    /\ pc = "title"
    /\ IF HeadTitle(soup) = 0
       THEN Abort("AttributeError") /\ soup' = soup
       ELSE /\ soup' = [soup EXCEPT !.titles[HeadTitle(soup)].text = @ \o TitleStr]
            /\ pc' = "links"
            /\ err' = err
    /\ UNCHANGED <<inFile, todo, init_scripts, outFile>>
    /\ UNCHANGED pageVars

SetTitleIfAny ==
    /\ pc = "title"
    /\ IF HeadTitle(soup) = 0
       THEN soup' = soup
       ELSE soup' = [soup EXCEPT !.titles[HeadTitle(soup)].text = TitleStr]
    /\ pc' = "links"
    /\ UNCHANGED <<inFile, todo, init_scripts, outFile, err>>
    /\ UNCHANGED pageVars

SetTitle ==
    /\ pc = "title"
    /\ IF HeadTitle(soup) = 0
       THEN Abort("AttributeError") /\ soup' = soup
       ELSE /\ soup' = [soup EXCEPT !.titles[HeadTitle(soup)].text = TitleStr]
            /\ pc' = "links"
            /\ err' = err
    /\ UNCHANGED <<inFile, todo, init_scripts, outFile>>
    /\ UNCHANGED pageVars

\* soup.find_all('link', href=re.compile(r'^\./'))
FindLinks ==
    /\ pc = "links"
    /\ todo' = FindAllRel(soup, "link", "href", 1)
    /\ pc' = "link_loop"
    /\ UNCHANGED <<inFile, soup, init_scripts, outFile, err>>
    /\ UNCHANGED pageVars

\* link['href'] = rewrite_link(link['href']), for the next link found
RewriteLink ==
    /\ pc = "link_loop"
    /\ todo # <<>>
    /\ LET i == Head(todo)
           v == soup.elems[i].href[1]
       IN  IF ~rewrite_link_assert(v)
           THEN Abort("AssertionError in rewrite_link")
                    /\ UNCHANGED <<soup, todo>>
           ELSE /\ soup' = [soup EXCEPT !.elems[i].href = Some(rewrite_link(v))]
                /\ todo' = Tail(todo)
                /\ UNCHANGED <<pc, err>>
    /\ UNCHANGED <<inFile, init_scripts, outFile>>
    /\ UNCHANGED pageVars

\* soup.find_all('script', src=re.compile(r'^\./')), once the links are done
FindScripts ==
    /\ pc = "link_loop"
    /\ todo = <<>>
    /\ todo' = FindAllRel(soup, "script", "src", 1)
    /\ pc' = "script_loop"
    /\ UNCHANGED <<inFile, soup, init_scripts, outFile, err>>
    /\ UNCHANGED pageVars

\* script['src'] = rewrite_link(script['src']), for the next script found
RewriteScript ==
    /\ pc = "script_loop"
    /\ todo # <<>>
    /\ LET i == Head(todo)
           v == soup.elems[i].src[1]
       IN  IF ~rewrite_link_assert(v)
           THEN Abort("AssertionError in rewrite_link")
                    /\ UNCHANGED <<soup, todo>>
           ELSE /\ soup' = [soup EXCEPT !.elems[i].src = Some(rewrite_link(v))]
                /\ todo' = Tail(todo)
                /\ UNCHANGED <<pc, err>>
    /\ UNCHANGED <<inFile, init_scripts, outFile>>
    /\ UNCHANGED pageVars

\* init_scripts = list(soup.find_all(is_initializer_script))
FindInit ==
    /\ pc = "script_loop"
    /\ todo = <<>>
    /\ init_scripts' = FindInitializers(soup, 1)
    /\ pc' = "assert_init"
    /\ UNCHANGED <<inFile, soup, todo, outFile, err>>
    /\ UNCHANGED pageVars

\* assert len(init_scripts) == 1
AssertInitSkipped ==
    /\ pc = "assert_init"
    /\ IF init_scripts = <<>>
       THEN Abort("IndexError")
       ELSE pc' = "replace_init" /\ err' = err
    /\ UNCHANGED <<inFile, soup, todo, init_scripts, outFile>>
    /\ UNCHANGED pageVars

AssertInit ==
    /\ pc = "assert_init"
    /\ IF Len(init_scripts) # 1
       THEN Abort("AssertionError on init_scripts")
       ELSE pc' = "replace_init" /\ err' = err
    /\ UNCHANGED <<inFile, soup, todo, init_scripts, outFile>>
    /\ UNCHANGED pageVars

\* init_scripts[0].string = <the template>
ReplaceEveryInline ==
    /\ pc = "replace_init"
    /\ soup' = [soup EXCEPT !.elems =
                    [i \in 1..Len(soup.elems) |->
                        IF soup.elems[i].name = "script" /\ soup.elems[i].src = None
                        THEN [soup.elems[i] EXCEPT !.text = Template]
                        ELSE soup.elems[i]]]
    /\ pc' = "open_out"
    /\ UNCHANGED <<inFile, todo, init_scripts, outFile, err>>
    /\ UNCHANGED pageVars

ReplaceInit ==
    /\ pc = "replace_init"
    /\ soup' = [soup EXCEPT !.elems[init_scripts[1]].text = Template]
    /\ pc' = "open_out"
    /\ UNCHANGED <<inFile, todo, init_scripts, outFile, err>>
    /\ UNCHANGED pageVars

\* with (current_dir / 'index.html').open('w') as fp: the file is created or
\* truncated, or open() raises.
OpenOut ==
    /\ pc = "open_out"
    /\ \/ /\ outFile' = OpenedFile
          /\ pc' = "write_out"
          /\ err' = err
       \/ /\ Abort("OSError")
          /\ outFile' = outFile
    /\ UNCHANGED <<inFile, soup, todo, init_scripts>>
    /\ UNCHANGED pageVars

\* fp.write(soup.prettify())
WriteOut ==
    /\ pc = "write_out"
    /\ outFile' = WrittenFile(prettify(soup))
    /\ pc' = "done"
    /\ UNCHANGED <<inFile, soup, todo, init_scripts, err>>
    /\ UNCHANGED pageVars

Next ==
    \/ Load
    \/ SetTitle
    \/ FindLinks
    \/ RewriteLink
    \/ FindScripts
    \/ RewriteScript
    \/ FindInit
    \/ AssertInit
    \/ ReplaceInit
    \/ OpenOut
    \/ WriteOut

Spec == Init /\ [][Next]_vars

-----------------------------------------------------------------------------
(* The emitted initializer: what the template's window.onload does when    *)
(* the written page is loaded.                                             *)

\* The characters of a query string: the two separators, the parameter
\* name, another character, an escaped "=" and a "%" that begins no escape.
QChar == {"&", "=", "encircleUrl", "a", "%3D", "%"}

\* document.location.search: empty, or "?" and a non-empty query.
Searches ==
    {<<>>} \cup {<<"?">> \o r : r \in Strs(QChar, MaxQuery) \ {<<>>}}

Protocols == {"file:", "https:"}

\* decodeURIComponent: an escape becomes its character; a "%" that begins no
\* escape makes it throw URIError.
Malformed(s) == \E i \in 1..Len(s) : s[i] = "%"

decodeURIComponent(s) ==
    [i \in 1..Len(s) |-> IF s[i] = "%3D" THEN "=" ELSE s[i]]

\* query[k] = v on an object kept as its entries in insertion order.
Has(q, k) == \E i \in 1..Len(q) : q[i].key = k

Get(q, k) == q[CHOOSE i \in 1..Len(q) : q[i].key = k].value

Put(q, k, v) ==
    IF Has(q, k)
    THEN [i \in 1..Len(q) |-> IF q[i].key = k THEN [q[i] EXCEPT !.value = v]
                                              ELSE q[i]]
    ELSE Append(q, [key |-> k, value |-> v])

\* (queryString.charAt(0) === '?' ? queryString.substr(1) : queryString).split('&')
QueryPairs(queryString) ==
    Split(IF queryString # <<>> /\ queryString[1] = "?"
          THEN Tail(queryString) ELSE queryString, "&")

\* pair[0] and (pair[1] || '') of pair = pairs[i].split('=')
PairKey(pairText) == Split(pairText, "=")[1]

PairValueLast(pairText) ==
    LET pair == Split(pairText, "=") IN
    IF Len(pair) >= 2 THEN pair[Len(pair)] ELSE <<>>

PairValue(pairText) ==
    LET pair == Split(pairText, "=") IN
    IF Len(pair) >= 2 THEN pair[2] ELSE <<>>

\* The for loop of parseQuery from pair i on: the object it returns, or
\* "URIError" when a decodeURIComponent throws on the way.
RECURSIVE ParseFrom(_, _, _)
ParseFrom(pairs, i, q) ==
    IF i > Len(pairs) THEN [threw |-> FALSE, query |-> q]
    ELSE IF Malformed(PairKey(pairs[i])) \/ Malformed(PairValue(pairs[i]))
    THEN [threw |-> TRUE, query |-> q]
    ELSE ParseFrom(pairs, i + 1,
                   Put(q, decodeURIComponent(PairKey(pairs[i])),
                          decodeURIComponent(PairValue(pairs[i]))))

parseQuery(queryString) == ParseFrom(QueryPairs(queryString), 1, <<>>)

LocalEntry ==
    [url |-> <<"http://localhost:8890/openapi_v3.json">>,
     name |-> <<"localhost:8890">>]

ProdEntry ==
    [url |-> <<"https://api.encircleapp.com/openapi_v3.json">>,
     name |-> <<"api.encircleapp.com">>]

RunOver ==
    /\ pc = "done"
    /\ inFile = EmptyDoc
    /\ soup = EmptyDoc
    /\ todo = <<>>
    /\ init_scripts = <<>>
    /\ outFile = NoFile
    /\ err = "none"

PageInit ==
    /\ ppc = "onload"
    /\ protocol \in Protocols
    /\ search \in Searches
    /\ query = <<>>
    /\ urls = <<>>
    /\ RunOver

\* var query = parseQuery(document.location.search); var urls = [];
ParseQuery ==
    /\ ppc = "onload"
    /\ LET r == parseQuery(search)
       IN  IF r.threw
           THEN ppc' = "URIError" /\ query' = query
           ELSE ppc' = "local" /\ query' = r.query
    /\ urls' = <<>>
    /\ UNCHANGED <<protocol, search>>
    /\ UNCHANGED runVars

\* if (document.location.protocol == 'file:') urls.push({...localhost...})
PushLocal ==
    /\ ppc = "local"
    /\ urls' = IF protocol = "file:" THEN Append(urls, LocalEntry) ELSE urls
    /\ ppc' = "param"
    /\ UNCHANGED <<protocol, search, query>>
    /\ UNCHANGED runVars

\* if (query.encircleUrl != null) urls.push({url: query.encircleUrl, name: query.encircleUrl})
PushQueryIfTruthy ==
    /\ ppc = "param"
    /\ urls' = IF Has(query, <<"encircleUrl">>)
                    /\ Get(query, <<"encircleUrl">>) # <<>>
               THEN Append(urls, [url |-> Get(query, <<"encircleUrl">>),
                                  name |-> Get(query, <<"encircleUrl">>)])
               ELSE urls
    /\ ppc' = "prod"
    /\ UNCHANGED <<protocol, search, query>>
    /\ UNCHANGED runVars

PushQuery ==
    /\ ppc = "param"
    /\ urls' = IF Has(query, <<"encircleUrl">>)
               THEN Append(urls, [url |-> Get(query, <<"encircleUrl">>),
                                  name |-> Get(query, <<"encircleUrl">>)])
               ELSE urls
    /\ ppc' = "prod"
    /\ UNCHANGED <<protocol, search, query>>
    /\ UNCHANGED runVars

\* urls.push({...api.encircleapp.com...})
PushProd ==
    /\ ppc = "prod"
    /\ urls' = Append(urls, ProdEntry)
    /\ ppc' = "construct"
    /\ UNCHANGED <<protocol, search, query>>
    /\ UNCHANGED runVars

\* var ui = SwaggerUIBundle({urls: urls, ...})
Construct ==
    /\ ppc = "construct"
    /\ ppc' = "constructed"
    /\ UNCHANGED <<protocol, search, query, urls>>
    /\ UNCHANGED runVars

PageNext ==
    \/ ParseQuery
    \/ PushLocal
    \/ PushQuery
    \/ PushProd
    \/ Construct

PageSpec == PageInit /\ [][PageNext]_vars

-----------------------------------------------------------------------------
(* Properties of the run.                                                  *)

\* Stated apart from the code's own regular expression and split/join.
StartsDotSlash(v) == Len(v) >= 2 /\ SubSeq(v, 1, 2) = <<".", "/">>

Vendored(v) ==
    <<".", "/", "node_modules", "/", "swagger-ui-dist", "/">>
        \o SubSeq(v, 3, Len(v))

\* The tree has been parsed and not yet replaced.
Loaded == Len(soup.elems) = Len(inFile.elems) /\ Len(soup.titles) = Len(inFile.titles)

LinksDone ==
    pc \in {"script_loop", "assert_init", "replace_init", "open_out",
            "write_out", "done"}

ScriptsDone ==
    \/ pc \in {"assert_init", "replace_init", "open_out", "write_out", "done"}
    \/ pc = "script_loop" /\ todo = <<>>

\* C1: once the link loop (the script loop) is over, the href of every link
\* (the src of every script) that was ./<rest> in the input is exactly
\* ./node_modules/swagger-ui-dist/<rest>, in the tree and in the written
\* file, for an empty <rest> and for a <rest> of several segments alike.
C1_RelativeRewritten ==
    \A i \in 1..Len(inFile.elems) :
        LET e == inFile.elems[i] IN
        /\ (LinksDone /\ e.name = "link" /\ e.href # None
                /\ StartsDotSlash(e.href[1]))
              => /\ soup.elems[i].href = Some(Vendored(e.href[1]))
                 /\ pc = "done"
                      => outFile.doc.elems[i].href = Some(Vendored(e.href[1]))
        /\ (ScriptsDone /\ e.name = "script" /\ e.src # None
                /\ StartsDotSlash(e.src[1]))
              => /\ soup.elems[i].src = Some(Vendored(e.src[1]))
                 /\ pc = "done"
                      => outFile.doc.elems[i].src = Some(Vendored(e.src[1]))

\* A finished run over a link whose href is ./a/a.
C1_Witness ==
    /\ pc = "done"
    /\ \E i \in 1..Len(inFile.elems) :
          /\ inFile.elems[i].name = "link"
          /\ inFile.elems[i].href = Some(<<".", "/", "a", "/", "a">>)
          /\ outFile.doc.elems[i].href # inFile.elems[i].href

\* C2: a link href or a script src that is absent or does not begin with ./
\* has, in every state of the run and in the written file, the value it had
\* in the input.
C2_OthersUntouched ==
    \A i \in 1..Len(inFile.elems) :
        LET e == inFile.elems[i] IN
        /\ (e.name = "link" /\ (e.href = None \/ ~StartsDotSlash(e.href[1])))
              => /\ Loaded => soup.elems[i].href = e.href
                 /\ pc = "done" => outFile.doc.elems[i].href = e.href
        /\ (e.name = "script" /\ (e.src = None \/ ~StartsDotSlash(e.src[1])))
              => /\ Loaded => soup.elems[i].src = e.src
                 /\ pc = "done" => outFile.doc.elems[i].src = e.src

\* A finished run over a script whose src is ../a.
C2_Witness ==
    /\ pc = "done"
    /\ \E i \in 1..Len(inFile.elems) :
          /\ inFile.elems[i].name = "script"
          /\ inFile.elems[i].src = Some(<<".", ".", "/", "a">>)
          /\ outFile.doc.elems[i].src = inFile.elems[i].src

\* C3: an input with no initializer script, or with two or more, never gets
\* the output file opened or written.
C3_NoOutputUnlessOneInitializer ==
    Len(FindInitializers(inFile, 1)) # 1 => outFile = NoFile

\* The run aborted by the assertion on an input with two initializers.
C3_Witness ==
    /\ pc = "aborted"
    /\ err = "AssertionError on init_scripts"
    /\ Len(FindInitializers(inFile, 1)) >= 2
    /\ outFile = NoFile

\* The single initializer of the input, when there is exactly one.
TheInitializer == FindInitializers(inFile, 1)[1]

\* C4 as stated: with exactly one initializer in the input, after the run
\* its text is the template and every other script element is what it was.
C4_OtherScriptsIdentical ==
    (pc = "done" /\ Len(FindInitializers(inFile, 1)) = 1)
        => /\ soup.elems[TheInitializer].text = Template
           /\ \A i \in 1..Len(inFile.elems) :
                (i # TheInitializer /\ inFile.elems[i].name = "script")
                    => soup.elems[i] = inFile.elems[i]

\* C4 amended: with exactly one initializer in the input, after the run its
\* text is the template, and every other script has its text and href as
\* before, and its src as before unless that began with ./, which is
\* rewritten; the written file holds these texts stripped and re-indented.
C4_OtherScriptsKeepText ==
    (pc = "done" /\ Len(FindInitializers(inFile, 1)) = 1)
        => /\ soup.elems[TheInitializer].text = Template
           /\ soup.elems[TheInitializer].src = None
           /\ \A i \in 1..Len(inFile.elems) :
                LET e == inFile.elems[i] IN
                (i # TheInitializer /\ e.name = "script")
                    => /\ soup.elems[i].text = e.text
                       /\ soup.elems[i].href = e.href
                       /\ soup.elems[i].src =
                            IF e.src # None /\ StartsDotSlash(e.src[1])
                            THEN Some(Vendored(e.src[1])) ELSE e.src
                       /\ Strip(outFile.doc.elems[i].text) = Strip(e.text)

\* A finished run over the initializer and a script that has both markers
\* and a relative src.
C4_Witness ==
    /\ pc = "done"
    /\ Len(inFile.elems) = 2
    /\ is_initializer_script(inFile.elems[1])
    /\ inFile.elems[2] = Elem("script", None, Some(<<".", "/", "a">>), InitText)
    /\ soup.elems[2].text = InitText

\* C5 as stated: an input that does not hold exactly one title never gets
\* the output file written.
C5_NoOutputUnlessOneTitle ==
    Len(inFile.titles) # 1 => outFile = NoFile

\* C5 amended: an input with no title below head never gets the output file
\* opened or written, and the title step fails on no other input: two or
\* more titles are not rejected.
C5_NoOutputWithoutHeadTitle ==
    /\ (\A i \in 1..Len(inFile.titles) : ~inFile.titles[i].inHead)
            => outFile = NoFile
    /\ err = "AttributeError"
            => \A i \in 1..Len(inFile.titles) : ~inFile.titles[i].inHead

\* The run aborted at the title step on an input without any title.
C5_Witness ==
    /\ pc = "aborted"
    /\ err = "AttributeError"
    /\ inFile.titles = <<>>
    /\ soup = inFile

\* C6 as stated: with exactly one title in the input, the title text of the
\* written file is the fixed string exactly.
C6_OutputTitleExact ==
    (pc = "done" /\ Len(inFile.titles) = 1)
        => outFile.doc.titles[1].text = TitleStr

\* C6 amended: with exactly one title in the input, whatever its text, the
\* title string of the tree is the fixed string exactly from the title step
\* on, and the title text of the written file is that string on a line of
\* its own: the fixed string between the line break and indentation that
\* prettify puts around it.
C6_TitleSet ==
    Len(inFile.titles) = 1
        => /\ pc \in {"links", "link_loop", "script_loop", "assert_init",
                      "replace_init", "open_out", "write_out", "done"}
                => soup.titles[1].text = TitleStr
           /\ pc = "done"
                => /\ Strip(outFile.doc.titles[1].text) = TitleStr
                   /\ outFile.doc.titles[1].text # TitleStr

\* A finished run over the title " Y\n".
C6_Witness ==
    /\ pc = "done"
    /\ inFile.titles = <<Title(TRUE, <<SP, "Y", NL>>)>>
    /\ outFile.st = "written"

\* C9: the assertion of rewrite_link fails in no run.
C9_RewriteAssertNeverFails == err # "AssertionError in rewrite_link"

\* rewrite_link has been called on a link and has returned.
C9_Witness ==
    /\ pc = "link_loop"
    /\ err = "none"
    /\ \E i \in 1..Len(inFile.elems) :
          /\ inFile.elems[i].href = Some(<<".", "/">>)
          /\ soup.elems[i].href # inFile.elems[i].href

\* C10: once the initializer is replaced, and in the written file, exactly
\* one script satisfies is_initializer_script.
C10_OneInitializerAfterRun ==
    /\ pc \in {"open_out", "write_out", "done"}
            => Len(FindInitializers(soup, 1)) = 1
    /\ pc = "done" => Len(FindInitializers(outFile.doc, 1)) = 1

\* A finished run whose input held the initializer and a script that only
\* has one of the markers.
C10_Witness ==
    /\ pc = "done"
    /\ \E i, j \in 1..Len(inFile.elems) :
          /\ soup.elems[i].text = Template
          /\ inFile.elems[j].text = <<"window.onload", "=", "code">>
          /\ FindInitializers(outFile.doc, 1) = <<i>>

-----------------------------------------------------------------------------
(* Properties of the emitted page.                                         *)

\* The query string cut at a separator, stated on positions: the cuts are
\* the separator's positions and both ends, a piece lies between a cut and
\* the next one.
Cuts(s, sep) == {0, Len(s) + 1} \cup {i \in 1..Len(s) : s[i] = sep}

NextCut(s, sep, c) ==
    CHOOSE n \in Cuts(s, sep) :
        n > c /\ \A m \in Cuts(s, sep) : m > c => n <= m

PieceAt(s, sep, c) == SubSeq(s, c + 1, NextCut(s, sep, c) - 1)

PieceStarts(s, sep) == Cuts(s, sep) \ {Len(s) + 1}

LastCut(s, sep) ==
    CHOOSE c \in PieceStarts(s, sep) : \A m \in PieceStarts(s, sep) : m <= c

\* The query without its leading "?".
QueryBody == IF search # <<>> THEN Tail(search) ELSE <<>>

\* Of one pair: the text before its first "=", the text between its first
\* and its second "=" (empty without "="), the text after its last "=".
BeforeFirstEq(p) == PieceAt(p, "=", 0)

AfterFirstEq(p) ==
    IF Cardinality(PieceStarts(p, "=")) = 1 THEN <<>>
    ELSE PieceAt(p, "=", NextCut(p, "=", 0))

BeforeLastEq(p) == SubSeq(p, 1, LastCut(p, "=") - 1)

AfterLastEq(p) == PieceAt(p, "=", LastCut(p, "="))

EqCount(p) == Cardinality(PieceStarts(p, "=")) - 1

\* The pairs of the query by their starting cut; a pair counts when no later
\* pair has the same decoded key.
PairStarts == PieceStarts(QueryBody, "&")

PairAt(c) == PieceAt(QueryBody, "&", c)

KeyAt(c) == decodeURIComponent(BeforeFirstEq(PairAt(c)))

Counts(c) == \A d \in PairStarts : d > c => KeyAt(d) # KeyAt(c)

Parsed == ppc \in {"local", "param", "prod", "construct", "constructed"}

ParamStarts == {c \in PairStarts : KeyAt(c) = <<"encircleUrl">>}

ParamValue ==
    decodeURIComponent(AfterFirstEq(PairAt(
        CHOOSE c \in ParamStarts : \A d \in ParamStarts : d <= c)))

\* C7: the list the viewer is constructed with is the localhost entry iff
\* the protocol is file:, then the entry of the encircleUrl value iff the
\* query string has that parameter, then the production entry, last: one to
\* three entries in that order.
C7_EndpointList ==
    ppc = "constructed"
        => /\ urls = (IF protocol = "file:" THEN <<LocalEntry>> ELSE <<>>)
                  \o (IF ParamStarts # {}
                      THEN <<[url |-> ParamValue, name |-> ParamValue]>>
                      ELSE <<>>)
                  \o <<ProdEntry>>
           /\ Len(urls) \in 1..3
           /\ urls[Len(urls)] = ProdEntry

\* The viewer constructed from a file: page whose query gives encircleUrl no
\* value: three entries.
C7_Witness ==
    /\ ppc = "constructed"
    /\ protocol = "file:"
    /\ search = <<"?", "encircleUrl">>
    /\ Len(urls) = 3

\* C8 as stated: a pair with several "=" has its value taken at the last
\* "=" (under its key before the first "=", or under everything before the
\* last "="); a pair without "=" or with nothing after it has the empty
\* value.  Pairs with a "%" that begins no escape are left aside.
C8_LastSplitWins ==
    Parsed =>
        \A c \in PairStarts :
            LET p == PairAt(c) IN
            (Counts(c) /\ ~Malformed(p)) =>
                IF EqCount(p) >= 2
                THEN \/ /\ Has(query, KeyAt(c))
                        /\ Get(query, KeyAt(c))
                              = decodeURIComponent(AfterLastEq(p))
                     \/ /\ Has(query, decodeURIComponent(BeforeLastEq(p)))
                        /\ Get(query, decodeURIComponent(BeforeLastEq(p)))
                              = decodeURIComponent(AfterLastEq(p))
                ELSE /\ Has(query, KeyAt(c))
                     /\ Get(query, KeyAt(c))
                              = decodeURIComponent(AfterFirstEq(p))

\* C8 amended: the key of a pair is its text before the first "=" and its
\* value the text between the first and the second "=", whatever follows a
\* second "=" being dropped; a pair without "=" or with nothing after the
\* first "=" has the empty value; of several pairs with one key the last
\* counts; the object holds these entries and no other.
C8_FirstSplitWins ==
    Parsed =>
        /\ \A c \in PairStarts :
              Counts(c) =>
                 /\ Has(query, KeyAt(c))
                 /\ Get(query, KeyAt(c))
                        = decodeURIComponent(AfterFirstEq(PairAt(c)))
        /\ \A i \in 1..Len(query) : \E c \in PairStarts : KeyAt(c) = query[i].key
        /\ \A c \in PairStarts :
              (Counts(c) /\ (EqCount(PairAt(c)) = 0
                                \/ AfterFirstEq(PairAt(c)) = <<>>))
                 => Get(query, KeyAt(c)) = <<>>

\* The query a=encircleUrl=a parsed: key a, value encircleUrl.
C8_Witness ==
    /\ ppc = "local"
    /\ search = <<"?", "a", "=", "encircleUrl", "=", "a">>
    /\ query = <<[key |-> <<"a">>, value |-> <<"encircleUrl">>]>>

=============================================================================
